---- MODULE Spec2Model ----
(***************************************************************************)
(* Weather dashboard front end (public/js/script.js): the retrying weather *)
(* fetch, the landing-page fan-out, the city-click and search handlers,    *)
(* the two-page navigation and the notification box.                       *)
(*                                                                         *)
(* The browser runs one handler at a time.  A handler runs until it        *)
(* returns or reaches an await on the network or on a timer; the           *)
(* continuation of an await on an async function of the page itself runs   *)
(* in the same turn of the event loop.  One action is one such turn.       *)
(***************************************************************************)
EXTENDS Integers, Sequences, FiniteSets, TLC

VARIABLES
    FAMOUS_CITIES,   \* the city table: city -> entry (static entry, or entry merged with a snapshot)
    dom,             \* the DOM state the script writes (see DomInitial)
    frame,           \* per async invocation: the position and locals of its fetchWeatherData call
    results,         \* per landing callback: "pending", or the value its promise resolved with
    loaded,          \* window.onload has fired
    started,         \* number of user-initiated lookups so far (clicks and searches)
    last,            \* the most recent event of a user-initiated lookup
    WEATHER_API_KEY, \* server.js: the credential the backend is deployed with
    server,          \* server.js: per request to GET /api/weather, its handler's position and effects
    weatherCode,     \* fetchWeatherData: const weatherCode = currentData.weather_code
    weatherInfo      \* fetchWeatherData: const weatherInfo = WMO_CODE_MAP[weatherCode] || ...

\* the variables of the page, of the backend and of the condition lookup
pageVars == <<FAMOUS_CITIES, dom, frame, results, loaded, started, last>>
serverVars == <<WEATHER_API_KEY, server>>
lookupVars == <<weatherCode, weatherInfo>>

vars == <<FAMOUS_CITIES, dom, frame, results, loaded, started, last,
          WEATHER_API_KEY, server, weatherCode, weatherInfo>>

-----------------------------------------------------------------------------
(* Bounds and program constants *)

\* user-initiated lookups (city clicks and search submits) in one run
MaxLookups == 2

\* const maxRetries = 3;
maxRetries == 3

\* Object.entries(FAMOUS_CITIES): the featured cities in insertion order
CityOrder == <<"London", "Paris", "Tokyo", "New York", "Dubai">>
Cities == {CityOrder[k] : k \in 1..Len(CityOrder)}

\* names typed into the search box (trimmed), and the place the geocoder knows for each
SearchNames == {"", "Oslo", "Atlantis"}
GeoKnown == {"Oslo"}

\* a coordinate pair (lat, lon) is named by the place it lies in
\* async invocations: the landing callback of the k-th featured city is k,
\* the n-th user-initiated lookup is Len(CityOrder) + n
Callbacks == 1..Len(CityOrder)
Lookup(n) == Len(CityOrder) + n
Lookups == {Lookup(n) : n \in 1..MaxLookups}
Procs == Callbacks \cup Lookups

Undefined == "undefined"

\* the provider's current temperature at a coordinate (temperature_2m)
Reading(coord) ==
    CASE coord = "London" -> "11"
      [] coord = "Paris" -> "13"
      [] coord = "Tokyo" -> "17"
      [] coord = "New York" -> "9"
      [] coord = "Dubai" -> "31"
      [] coord = "Oslo" -> "2"
      [] OTHER -> Undefined

-----------------------------------------------------------------------------
(* Responses of the transport to one GET of the weather URL *)

\* kind "reject": fetch(url) rejects; "notok": response.ok is false;
\* "ok": response.ok is true and the body is as the other fields say:
\* json = response.json() resolves; reason, current, daily = the truthiness of
\* data.reason, the value of data.current.temperature_2m (Undefined when
\* data.current is absent), the truthiness of data.daily.  A section that is
\* present has the fields the URL asks for.
Resp(kind, json, reason, current, daily) ==
    [kind |-> kind, json |-> json, reason |-> reason, current |-> current, daily |-> daily]

NoResp == Resp("none", FALSE, FALSE, Undefined, FALSE)
Reject == Resp("reject", FALSE, FALSE, Undefined, FALSE)
NotOk == Resp("notok", FALSE, FALSE, Undefined, FALSE)
BadJson == Resp("ok", FALSE, FALSE, Undefined, FALSE)

OkBodies(coord) ==
    {Resp("ok", TRUE, r, c, d) : r \in BOOLEAN, c \in {Undefined, Reading(coord)}, d \in BOOLEAN}

Responses(coord) == {Reject, NotOk, BadJson} \cup OkBodies(coord)

-----------------------------------------------------------------------------
(* Table entries, snapshots and cards *)

Entry(coord, city, temp) == [coord |-> coord, city |-> city, temp |-> temp]

\* FAMOUS_CITIES[c] as written in the source: lat, lon and icon, no weather fields
StaticEntry(c) == Entry(c, Undefined, Undefined)

\* return null;
Null == Entry(Undefined, "null", Undefined)

\* a promise of a landing callback that has not resolved
Pending == Entry(Undefined, "pending", Undefined)

\* faulty variant: the snapshot reads the temperature off the wrong object
Snapshot_WrongField(city, data) == Entry(Undefined, city, Undefined)

\* the object fetchWeatherData returns: no lat, no lon
Snapshot(city, data) == Entry(Undefined, city, data.current)

\* { ...data, ...weatherData }
Merge(data, weatherData) == Entry(data.coord, weatherData.city, weatherData.temp)

-----------------------------------------------------------------------------
(* The DOM *)

\* The state of the elements the script writes, as index.html (not part of
\* the sources at hand) leaves it: the landing page shown, the details page
\* hidden and transparent, the loading indicator and the message box not
\* displayed, no city card, no pending timer.
DomInitial ==
    [loadingIndicator |-> "none",
     messageBox |-> "none",
     dismissTimers |-> 0,            \* pending setTimeout callbacks of showMessage
     landingHidden |-> FALSE,
     landingOpacity0 |-> FALSE,
     detailsHidden |-> TRUE,
     detailsOpacity0 |-> TRUE,
     fadeTimers |-> <<>>,            \* pending setTimeout callbacks of navigate, oldest first
     detailsCityName |-> Undefined,
     currentTemp |-> Undefined,
     cards |-> <<>>]                 \* children of featuredCitiesContainer

\* faulty variant: the box is shown and no timer is set to hide it
showMessage_NoTimer(d) ==
    [d EXCEPT !.messageBox = "block"]

\* function showMessage(msg, isError)
showMessage(d) ==
    [d EXCEPT !.messageBox = "block", !.dismissTimers = @ + 1]

\* faulty variant: going back does not un-hide the landing page
navigate_LandingStaysHidden(d, page) ==
    IF page = "details"
    THEN [d EXCEPT !.landingOpacity0 = TRUE, !.landingHidden = TRUE,
                   !.detailsHidden = FALSE,
                   !.fadeTimers = Append(@, "details")]
    ELSE [d EXCEPT !.detailsOpacity0 = TRUE, !.detailsHidden = TRUE,
                   !.fadeTimers = Append(@, "landing")]

\* function navigate(page)
navigate(d, page) ==
    IF page = "details"
    THEN [d EXCEPT !.landingOpacity0 = TRUE, !.landingHidden = TRUE,
                   !.detailsHidden = FALSE,
                   !.fadeTimers = Append(@, "details")]
    ELSE [d EXCEPT !.detailsOpacity0 = TRUE, !.detailsHidden = TRUE,
                   !.landingHidden = FALSE,
                   !.fadeTimers = Append(@, "landing")]

\* function updateDetailsPage(data)
updateDetailsPage(d, data) ==
    navigate([d EXCEPT !.detailsCityName = data.city, !.currentTemp = data.temp], "details")

\* function renderCityCard(city, data): the card keeps data for its onclick
renderCityCard(city, data) ==
    [city |-> city,
     data |-> data,
     currentTemp |-> IF data.temp # Undefined THEN data.temp ELSE "--"]

\* the page the user sees
ActivePage(d) == IF d.detailsHidden THEN "landing" ELSE "details"

-----------------------------------------------------------------------------
(* fetchWeatherData *)

\* faulty variant: the exponent is the attempt number, not the loop index
Backoff_Doubled(i) == (2 ^ (i + 1)) * 1000

\* const delay = Math.pow(2, i) * 1000;
Backoff(i) == (2 ^ i) * 1000

\* faulty variant: the loop backs off after its last attempt too: i < maxRetries
Outcome_ExtraAttempt(i, r) ==
    IF r.kind = "reject" THEN "catch"
    ELSE IF r.kind = "ok"
         THEN IF ~r.json THEN "catch"
              ELSE IF r.reason \/ r.current = Undefined \/ ~r.daily THEN "catch" ELSE "return"
         ELSE IF i < maxRetries THEN "sleep" ELSE "catch"

\* faulty variant: the check of data.reason is missing
Outcome_ReasonIgnored(i, r) ==
    IF r.kind = "reject" THEN "catch"
    ELSE IF r.kind = "ok"
         THEN IF ~r.json THEN "catch"
              ELSE IF r.current = Undefined \/ ~r.daily THEN "catch" ELSE "return"
         ELSE IF i < maxRetries - 1 THEN "sleep" ELSE "catch"

\* faulty variant: the body is checked inside the loop: an unusable body is retried
Outcome_DomainRetried(i, r) ==
    IF r.kind = "reject" THEN "catch"
    ELSE IF r.kind = "ok" /\ r.json /\ ~r.reason /\ r.current # Undefined /\ r.daily
         THEN "return"
         ELSE IF i < maxRetries - 1 THEN "sleep" ELSE "catch"

\* What the function does with the response to the GET of loop index i:
\* "sleep" (back off, then loop), "return" (a snapshot) or "catch" (null).
Outcome(i, r) ==
    IF r.kind = "reject" THEN "catch"                         \* await fetch(url) throws
    ELSE IF r.kind = "ok"
         THEN IF ~r.json THEN "catch"                         \* await response.json() throws
              ELSE IF r.reason \/ r.current = Undefined \/ ~r.daily
                   THEN "catch"                               \* throw new Error(`API returned ...`)
                   ELSE "return"
         ELSE IF i < maxRetries - 1 THEN "sleep"
              ELSE "catch"                                    \* throw new Error(`Failed to fetch ...`)

\* the value the function returns once it stops looping
FetchValue(city, i, r) ==
    IF Outcome(i, r) = "return" THEN Snapshot(city, r) ELSE Null

\* faulty variant: the catch block does not hide the loading indicator
FetchReturnDom_NoHide(d, i, r) ==
    IF Outcome(i, r) = "return"
    THEN [d EXCEPT !.loadingIndicator = "none"]
    ELSE showMessage(d)

\* the DOM when the function returns
FetchReturnDom(d, i, r) ==
    IF Outcome(i, r) = "return"
    THEN [d EXCEPT !.loadingIndicator = "none"]
    ELSE showMessage([d EXCEPT !.loadingIndicator = "none"])

\* the frame of an invocation that has not started, and of one that has returned
Frame(pc, kind, name, city, coord, i, gets, delays) ==
    [pc |-> pc, kind |-> kind, name |-> name, city |-> city, coord |-> coord,
     i |-> i, gets |-> gets, delays |-> delays]

Idle == Frame("idle", "none", Undefined, Undefined, Undefined, 0, 0, <<>>)
Returned == Frame("done", "none", Undefined, Undefined, Undefined, 0, 0, <<>>)

\* fetchWeatherData(city, lat, lon) up to its first await: the first GET is out
FetchStart(kind, name, city, coord) ==
    Frame("fetch", kind, name, city, coord, 0, 1, <<>>)

\* the events of a turn
\* an event: what happened (op), to which invocation (proc), for which city;
\* for a response: the response, the GETs issued and the backoff delays slept
\* so far, what the function did with it (outcome) and the value it returned;
\* log: the lines the turn wrote to the console
Event(op, proc, city, resp, gets, delays, outcome, value) ==
    [op |-> op, proc |-> proc, city |-> city, resp |-> resp, gets |-> gets,
     delays |-> delays, outcome |-> outcome, value |-> value, log |-> <<>>]

\* console.error(line, error) in a catch block that ran (caught)
ConsoleError(caught, line, e) == IF caught THEN [e EXCEPT !.log = <<line>>] ELSE e

Ev(op, proc, city) == Event(op, proc, city, NoResp, 0, <<>>, "none", Null)

NoEvent == Ev("none", 0, Undefined)

\* last records the turns taken on behalf of the user-initiated lookups
Observe(p, e) == IF p \in Lookups THEN e ELSE NoEvent

-----------------------------------------------------------------------------
(* The continuations of await fetchWeatherData(...) *)

\* the entry a landing callback destructured from Object.entries(FAMOUS_CITIES)
LandingData(c) == StaticEntry(c)

\* the landing callback of city c after fetchWeatherData returned weatherData:
\* the table, and the value the callback's promise resolves with
LandingTable(tbl, c, weatherData) ==
    IF weatherData # Null
    THEN [tbl EXCEPT ![c] = Merge(LandingData(c), weatherData)]
    ELSE tbl

\* faulty variant: the callback returns weatherData even when it is null
LandingResult_Raw(c, weatherData) == weatherData

LandingResult(c, weatherData) ==
    IF weatherData # Null THEN weatherData ELSE LandingData(c)

\* await Promise.all(cityPromises); results.forEach(... appendChild(renderCityCard(...)))
AllSettled(res) == \A c \in Cities : res[c] # Pending

\* faulty variant: the cards are appended as the fetches settle, not after the join
RenderCards_Each(d, res) ==
    [d EXCEPT !.cards = [k \in 1..Cardinality({c \in Cities : res[c] # Pending}) |->
                            renderCityCard(CityOrder[k], res[CityOrder[k]])]]

RenderCards(d, res) ==
    IF AllSettled(res)
    THEN [d EXCEPT !.cards = @ \o [k \in 1..Len(CityOrder) |->
                                      renderCityCard(CityOrder[k], res[CityOrder[k]])]]
    ELSE d

\* faulty variant: the test is only if (cityData)
Held_AnyEntry(cityData) == cityData.coord # Undefined

\* showDetails: cityData && cityData.temp !== undefined
Held(cityData) == cityData.temp # Undefined

\* faulty variant: showDetails renders whatever the fetch returned
ClickContinue_Always(d, weatherData) == updateDetailsPage(d, weatherData)

\* showDetails after the await: if (weatherData) updateDetailsPage(weatherData)
ClickContinue(d, weatherData) ==
    IF weatherData # Null THEN updateDetailsPage(d, weatherData) ELSE d

\* faulty variant: the submit handler renders whatever the fetch returned
SearchContinue_Always(d, weatherData) ==
    [updateDetailsPage(d, weatherData) EXCEPT !.loadingIndicator = "none"]

\* the submit handler after the await, and its finally block
SearchContinue(d, weatherData) ==
    [(IF weatherData # Null THEN updateDetailsPage(d, weatherData) ELSE d)
        EXCEPT !.loadingIndicator = "none"]

-----------------------------------------------------------------------------
(* The backend (server.js): GET /api/weather *)

\* requests to /api/weather in one run
MaxRequests == 2
Requests == 1..MaxRequests

\* const WEATHER_API_KEY = 'YOUR_API_KEY_HERE' as shipped, and a key put in its place
Unconfigured == "YOUR_API_KEY_HERE"
Keys == {Unconfigured, "0123456789abcdef"}

\* req.query.location: absent, empty, or a city name
Locations == {Undefined, "", "Paris", "Oslo"}

\* What axios.get(...) yields: kind "ok": it resolves with response.data =
\* data; "error": it rejects and error.response has the status and, when
\* message is not Undefined, data.message; "none": it rejects without
\* error.response (no answer from the provider).
Up(kind, status, message, data) ==
    [kind |-> kind, status |-> status, message |-> message, data |-> data]

NoAnswer == Up("unasked", 0, Undefined, Undefined)

UpstreamAnswers(location) ==
    {Up("ok", 200, Undefined, location),
     Up("error", 401, "Invalid API key.", Undefined),
     Up("error", 404, "city not found", Undefined),
     Up("error", 502, Undefined, Undefined),
     Up("none", 0, Undefined, Undefined)}

\* res.status(status).json({ error: error }) or res.json(data)
Reply(status, error, data) == [status |-> status, error |-> error, data |-> data]

\* faulty variant: the key is checked before the location
Handle_KeyFirst(key, location) ==
    IF key = Unconfigured
    THEN <<Reply(503, "Weather service is unavailable due to missing API Key configuration.", Undefined)>>
    ELSE IF location \in {Undefined, ""}
         THEN <<Reply(400, "Location query parameter is required.", Undefined)>>
         ELSE <<>>

\* the handler up to its await: the replies it has sent (none when it goes on
\* to call the provider)
Handle(key, location) ==
    IF location \in {Undefined, ""}                           \* if (!location)
    THEN <<Reply(400, "Location query parameter is required.", Undefined)>>
    ELSE IF key = Unconfigured
         THEN <<Reply(503, "Weather service is unavailable due to missing API Key configuration.", Undefined)>>
         ELSE <<>>

\* the handler after the await: res.json(response.data), or the catch block
Relay(a) ==
    IF a.kind = "ok"
    THEN Reply(200, Undefined, a.data)
    ELSE Reply(IF a.kind = "error" THEN a.status ELSE 500,
               IF a.kind = "error" /\ a.message # Undefined
               THEN a.message ELSE "Failed to fetch weather data.",
               Undefined)

\* a request: where its handler is, the location it carries, the replies sent
\* to it, the calls made to the provider for it and the provider's answer
Req(pc, location, replies, upstream, answer) ==
    [pc |-> pc, location |-> location, replies |-> replies,
     upstream |-> upstream, answer |-> answer]

NoRequest == Req("idle", Undefined, <<>>, 0, NoAnswer)

\* request r arrives with the given location (requests are numbered in the
\* order of their arrival)
Request(r, location) ==
    /\ server[r].pc = "idle"
    /\ r > 1 => server[r - 1].pc # "idle"
    /\ location \in Locations
    /\ LET sent == Handle(WEATHER_API_KEY, location)
       IN  server' = [server EXCEPT ![r] =
                         IF sent # <<>>
                         THEN Req("done", location, sent, 0, NoAnswer)
                         ELSE Req("upstream", location, <<>>, 1, NoAnswer)]
    /\ UNCHANGED <<WEATHER_API_KEY, pageVars, lookupVars>>

\* the call to the provider made for request r ends with a
UpstreamAnswer(r, a) ==
    /\ server[r].pc = "upstream"
    /\ a \in UpstreamAnswers(server[r].location)
    /\ server' = [server EXCEPT ![r] =
                     Req("done", @.location, Append(@.replies, Relay(a)), @.upstream, a)]
    /\ UNCHANGED <<WEATHER_API_KEY, pageVars, lookupVars>>

-----------------------------------------------------------------------------
(* The condition lookup of fetchWeatherData *)

\* weather codes looked up: absent, and the integers from -3 to MaxCode
MaxCode == 100

\* currentData.weather_code: a number, or undefined when the body has none
Code(n) == [present |-> TRUE, value |-> n]
NoCode == [present |-> FALSE, value |-> 0]
CodeInputs == {NoCode} \cup {Code(n) : n \in (0 - 3)..MaxCode}

Info(desc, icon) == [desc |-> desc, icon |-> icon]

\* const WMO_CODE_MAP = {...}: the numeric keys (an icon is named by its glyph)
WMO_CODE_MAP ==
    [n \in {0, 1, 2, 3, 45, 51, 61, 65, 71, 80, 95, 99} |->
        CASE n = 0 -> Info("Clear sky", "sun")
          [] n = 1 -> Info("Mostly Clear", "sun behind small cloud")
          [] n = 2 -> Info("Partly Cloudy", "sun behind cloud")
          [] n = 3 -> Info("Overcast", "cloud")
          [] n = 45 -> Info("Fog", "fog")
          [] n = 51 -> Info("Drizzle Light", "cloud with rain")
          [] n = 61 -> Info("Rain Slight", "cloud with rain")
          [] n = 65 -> Info("Rain Heavy", "cloud with lightning and rain")
          [] n = 71 -> Info("Snow Slight", "cloud with snow")
          [] n = 80 -> Info("Rain showers", "sun behind rain cloud")
          [] n = 95 -> Info("Thunderstorm", "cloud with lightning")
          [] n = 99 -> Info("Heavy Thunderstorm", "tornado")]

\* WMO_CODE_MAP['default']
WMO_default == Info("Unknown", "")

\* the value of an expression that is undefined, and weatherInfo before the lookup
NoInfo == Info(Undefined, Undefined)
NotLookedUp == Info("not looked up", "not looked up")

\* WMO_CODE_MAP[weatherCode]: undefined when the object has no such key
Property(code) ==
    IF code.present /\ code.value \in DOMAIN WMO_CODE_MAP
    THEN WMO_CODE_MAP[code.value]
    ELSE NoInfo

\* faulty variant: weatherCode ? WMO_CODE_MAP[weatherCode] : WMO_CODE_MAP['default']
Describe_Truthy(code) ==
    IF code.present /\ code.value # 0 THEN Property(code) ELSE WMO_default

\* WMO_CODE_MAP[weatherCode] || WMO_CODE_MAP['default']
Describe(code) ==
    IF Property(code) # NoInfo THEN Property(code) ELSE WMO_default

\* const weatherInfo = ...
LookUp ==
    /\ weatherInfo = NotLookedUp
    /\ weatherInfo' = Describe(weatherCode)
    /\ UNCHANGED <<weatherCode, pageVars, serverVars>>

-----------------------------------------------------------------------------
(* Initial state: the script has run, window.onload has not fired *)

\* the backend as shipped, before any request; no condition looked up
NoRequests ==
    /\ WEATHER_API_KEY = Unconfigured
    /\ server = [r \in Requests |-> NoRequest]

NoLookup ==
    /\ weatherCode = NoCode
    /\ weatherInfo = NotLookedUp

PageUnloaded ==
    /\ FAMOUS_CITIES = [c \in Cities |-> StaticEntry(c)]
    /\ dom = DomInitial
    /\ frame = [p \in Procs |-> Idle]
    /\ results = [c \in Cities |-> Pending]
    /\ loaded = FALSE
    /\ started = 0
    /\ last = NoEvent

Init == PageUnloaded /\ NoRequests /\ NoLookup

-----------------------------------------------------------------------------
(* Actions *)

\* window.onload = renderLandingPage: the container is emptied and every
\* callback of the map runs to its first await, the first GET of its fetch
Load ==
    /\ ~loaded
    /\ loaded' = TRUE
    /\ dom' = [dom EXCEPT !.cards = <<>>, !.loadingIndicator = "flex"]
    /\ frame' = [p \in Procs |->
                    IF p \in Callbacks
                    THEN FetchStart("landing", Undefined, CityOrder[p], LandingData(CityOrder[p]).coord)
                    ELSE frame[p]]
    /\ last' = NoEvent
    /\ UNCHANGED <<FAMOUS_CITIES, results, started>>
    /\ UNCHANGED <<serverVars, lookupVars>>

\* the transport answers the GET of invocation p with r
FetchResponse(p, r) ==
    /\ frame[p].pc = "fetch"
    /\ r \in Responses(frame[p].coord)
    /\ LET f == frame[p]
           out == Outcome(f.i, r)
           value == FetchValue(f.city, f.i, r)
           d == FetchReturnDom(dom, f.i, r)
       IN  IF out = "sleep"
           THEN /\ frame' = [frame EXCEPT ![p].pc = "sleep",
                                          ![p].delays = Append(@, Backoff(f.i))]
                /\ last' = Observe(p, Event("response", p, f.city, r, f.gets, Append(f.delays, Backoff(f.i)), out, Null))
                /\ UNCHANGED <<FAMOUS_CITIES, dom, results>>
           ELSE /\ frame' = [frame EXCEPT ![p] = Returned]
                /\ last' = Observe(p, ConsoleError(out = "catch", "Error fetching weather:",
                                        Event("response", p, f.city, r, f.gets, f.delays, out, value)))
                /\ IF f.kind = "landing"
                   THEN /\ FAMOUS_CITIES' = LandingTable(FAMOUS_CITIES, f.city, value)
                        /\ results' = [results EXCEPT ![f.city] = LandingResult(f.city, value)]
                        /\ dom' = RenderCards(d, results')
                   ELSE /\ dom' = IF f.kind = "click"
                                  THEN ClickContinue(d, value)
                                  ELSE SearchContinue(d, value)
                        /\ UNCHANGED <<FAMOUS_CITIES, results>>
    /\ UNCHANGED <<loaded, started>>
    /\ UNCHANGED <<serverVars, lookupVars>>

\* the backoff timer of invocation p fires: i++ and the next GET goes out
BackoffElapsed(p) ==
    /\ frame[p].pc = "sleep"
    /\ frame' = [frame EXCEPT ![p].pc = "fetch", ![p].i = @ + 1, ![p].gets = @ + 1]
    /\ last' = Observe(p, Event("backoff", p, frame[p].city, NoResp, frame[p].gets + 1, frame[p].delays, "none", Null))
    /\ UNCHANGED <<FAMOUS_CITIES, dom, results, loaded, started>>
    /\ UNCHANGED <<serverVars, lookupVars>>

\* the 4000 ms timer of a showMessage call fires
DismissTimer ==
    /\ dom.dismissTimers > 0
    /\ dom' = [dom EXCEPT !.messageBox = "none", !.dismissTimers = @ - 1]
    /\ last' = NoEvent
    /\ UNCHANGED <<FAMOUS_CITIES, frame, results, loaded, started>>
    /\ UNCHANGED <<serverVars, lookupVars>>

\* the oldest 10 ms timer of navigate fires
FadeTimer ==
    /\ dom.fadeTimers # <<>>
    /\ dom' = IF Head(dom.fadeTimers) = "details"
              THEN [dom EXCEPT !.detailsOpacity0 = FALSE, !.fadeTimers = Tail(@)]
              ELSE [dom EXCEPT !.landingOpacity0 = FALSE, !.fadeTimers = Tail(@)]
    /\ last' = NoEvent
    /\ UNCHANGED <<FAMOUS_CITIES, frame, results, loaded, started>>
    /\ UNCHANGED <<serverVars, lookupVars>>

\* card.onclick = () => showDetails(city, data.lat, data.lon), on the k-th card
\* (the cards lie on the landing page: they can be clicked while it is shown)
ClickCity(k) ==
    /\ started < MaxLookups
    /\ ~dom.landingHidden
    /\ k \in 1..Len(dom.cards)
    /\ LET l == Lookup(started + 1)
           city == dom.cards[k].city
           coord == dom.cards[k].data.coord
           cityData == FAMOUS_CITIES[city]
       IN  /\ started' = started + 1
           /\ last' = Ev("click", l, city)
           /\ IF Held(cityData)
              THEN /\ dom' = updateDetailsPage(dom, cityData)
                   /\ frame' = [frame EXCEPT ![l] = Returned]
              ELSE /\ dom' = [dom EXCEPT !.loadingIndicator = "flex"]
                   /\ frame' = [frame EXCEPT ![l] = FetchStart("click", Undefined, city, coord)]
    /\ UNCHANGED <<FAMOUS_CITIES, results, loaded>>
    /\ UNCHANGED <<serverVars, lookupVars>>

\* the user clicks the back button (it lies on the details page)
Back ==
    /\ ~dom.detailsHidden
    /\ dom' = navigate(dom, "landing")
    /\ last' = Ev("back", 0, Undefined)
    /\ UNCHANGED <<FAMOUS_CITIES, frame, results, loaded, started>>
    /\ UNCHANGED <<serverVars, lookupVars>>

\* the geocoder's answers to a search: the request fails, the body does not
\* parse, no result, or the first result
GeoAnswers(name) == {"reject", "badjson", "miss"} \cup (IF name \in GeoKnown THEN {"hit"} ELSE {})

\* result.name + (result.country ? `, ${result.country}` : '')
DisplayCity(name) == IF name = "Oslo" THEN "Oslo, Norway" ELSE name

\* the search form is submitted with the box holding name (trimmed)
SubmitSearch(name) ==
    /\ name \in SearchNames
    /\ last' = Ev("submit", IF name = "" THEN 0 ELSE Lookup(started + 1), Undefined)
    /\ IF name = ""
       THEN UNCHANGED <<dom, frame, started>>                    \* if (!locationName) return;
       ELSE /\ started < MaxLookups
            /\ started' = started + 1
            /\ dom' = [dom EXCEPT !.loadingIndicator = "flex"]
            /\ frame' = [frame EXCEPT ![Lookup(started + 1)] =
                            Frame("geo", "search", name, Undefined, Undefined, 0, 0, <<>>)]
    /\ UNCHANGED <<FAMOUS_CITIES, results, loaded>>
    /\ UNCHANGED <<serverVars, lookupVars>>

\* the geocoder answers the search of lookup l
GeoResponse(l, g) ==
    /\ frame[l].pc = "geo"
    /\ g \in GeoAnswers(frame[l].name)
    /\ last' = ConsoleError(g \in {"reject", "badjson"}, "Search and Geocoding Error:",
                          Event("geo", l, Undefined, NoResp, 0, <<>>, g, Null))
    /\ IF g = "hit"
       THEN \* fetchWeatherData(displayCity, lat, lon) up to its first await
            /\ dom' = [dom EXCEPT !.loadingIndicator = "flex"]
            /\ frame' = [frame EXCEPT ![l] =
                            FetchStart("search", frame[l].name, DisplayCity(frame[l].name), frame[l].name)]
       ELSE \* showMessage in the miss branch or in the catch block, then finally
            /\ dom' = [showMessage(dom) EXCEPT !.loadingIndicator = "none"]
            /\ frame' = [frame EXCEPT ![l] = Returned]
    /\ UNCHANGED <<FAMOUS_CITIES, results, loaded, started>>
    /\ UNCHANGED <<serverVars, lookupVars>>

-----------------------------------------------------------------------------
(* Specifications *)

\* the page from its load on: the landing fan-out and its notifications
Next ==
    \/ Load
    \/ \E p \in Callbacks : \E r \in Responses(frame[p].coord) : FetchResponse(p, r)
    \/ \E p \in Callbacks : BackoffElapsed(p)
    \/ DismissTimer

Spec == Init /\ [][Next]_vars

\* The landing fetches that failed in the load the user acts after: city #3.
\* The handlers treat all featured cities alike; what matters to them is
\* whether the table holds a snapshot for the city or not.
LandingFailures == {{"Tokyo"}}

\* The page once the landing fan-out has settled, the cards are rendered and
\* the notifications of the failed fetches are dismissed (a state Spec
\* reaches); `failed` are the cities whose landing fetch returned null.
SettledTable(failed) ==
    [c \in Cities |->
        IF c \in failed THEN StaticEntry(c)
        ELSE Merge(LandingData(c), Snapshot(c, Resp("ok", TRUE, FALSE, Reading(c), TRUE)))]

SettledResults(failed) ==
    [c \in Cities |->
        IF c \in failed THEN LandingData(c)
        ELSE Snapshot(c, Resp("ok", TRUE, FALSE, Reading(c), TRUE))]

InitUI ==
    \E failed \in LandingFailures :
        /\ NoRequests /\ NoLookup
        /\ FAMOUS_CITIES = SettledTable(failed)
        /\ results = SettledResults(failed)
        /\ dom = RenderCards(DomInitial, results)
        /\ frame = [p \in Procs |-> IF p \in Callbacks THEN Returned ELSE Idle]
        /\ loaded = TRUE
        /\ started = 0
        /\ last = NoEvent

\* the user's clicks and searches on the settled page
NextUI ==
    \/ \E k \in 1..Len(CityOrder) : ClickCity(k)
    \/ \E name \in SearchNames : SubmitSearch(name)
    \/ \E l \in Lookups : \E g \in GeoAnswers(frame[l].name) : GeoResponse(l, g)
    \/ \E l \in Lookups : \E r \in Responses(frame[l].coord) : FetchResponse(l, r)
    \/ \E l \in Lookups : BackoffElapsed(l)
    \/ Back
    \/ DismissTimer
    \/ FadeTimer

SpecUI == InitUI /\ [][NextUI]_vars

\* the backend under either credential, the page not loaded
InitServer ==
    /\ PageUnloaded /\ NoLookup
    /\ WEATHER_API_KEY \in Keys
    /\ server = [r \in Requests |-> NoRequest]

NextServer ==
    \/ \E r \in Requests : \E location \in Locations : Request(r, location)
    \/ \E r \in Requests : \E a \in UpstreamAnswers(server[r].location) : UpstreamAnswer(r, a)

SpecServer == InitServer /\ [][NextServer]_vars

\* the condition lookup applied to each weather code
InitLookup ==
    /\ PageUnloaded /\ NoRequests
    /\ weatherCode \in CodeInputs
    /\ weatherInfo = NotLookedUp

NextLookup == LookUp

SpecLookup == InitLookup /\ [][NextLookup]_vars

-----------------------------------------------------------------------------
(* The retrying fetch: claims C1 to C6, on the fetches of the user's lookups *)

\* the last turn delivered a response to a GET of fetchWeatherData
Responded == last.op = "response"

\* the body of an ok response is what the provider promises: it parses and it
\* has the current and the daily section and no reason
WellFormed(r) == r.kind = "ok" /\ r.json /\ ~r.reason /\ r.current # Undefined /\ r.daily

\* C1: a fetch never issues more than maxRetries GETs; a non-ok response to a
\* GET that is not the maxRetries-th makes the fetch back off for another GET;
\* a non-ok response to the maxRetries-th GET ends the fetch with null (no
\* snapshot).  So a fetch whose responses are all non-ok issues exactly
\* maxRetries GETs and fails.
C1_ExactlyMaxRetries ==
    /\ \A p \in Procs : frame[p].gets <= maxRetries
    /\ \A p \in Procs : frame[p].pc \in {"fetch", "sleep"} => frame[p].gets = frame[p].i + 1
    /\ (Responded /\ last.resp = NotOk) =>
          IF last.gets = maxRetries
          THEN last.outcome = "catch" /\ last.value = Null /\ frame[last.proc] = Returned
          ELSE last.outcome = "sleep" /\ frame[last.proc].pc = "sleep"

\* the third GET of a lookup's fetch was answered non-ok, and the fetch returned null
C1_Witness ==
    /\ Responded /\ last.resp = NotOk /\ last.gets = maxRetries
    /\ last.outcome = "catch" /\ last.value = Null

\* C2 as stated: a fetch that ends after maxRetries non-ok responses has slept
\* 1 s, 2 s and 4 s.
C2_DelaysOneTwoFour ==
    (Responded /\ last.resp = NotOk /\ last.outcome = "catch") =>
        last.delays = <<1000, 2000, 4000>>

\* C2 as amended: the k-th backoff of a fetch (k = 1, 2, ...) lasts 2^(k-1)
\* seconds, one backoff follows each non-ok response but the last, and a fetch
\* that ends after maxRetries non-ok responses has slept 1 s and 2 s: no
\* delay follows the last attempt.
C2_DelaysOneTwo ==
    /\ \A p \in Procs : \A k \in 1..Len(frame[p].delays) :
          frame[p].delays[k] = (2 ^ (k - 1)) * 1000
    /\ \A p \in Procs : frame[p].pc = "sleep" => Len(frame[p].delays) = frame[p].gets
    /\ \A p \in Procs : frame[p].pc = "fetch" => Len(frame[p].delays) = frame[p].gets - 1
    /\ (Responded /\ last.resp = NotOk /\ last.outcome = "catch") =>
          last.delays = <<1000, 2000>>

\* a lookup's fetch gave up after its third non-ok response, having slept twice
C2_Witness ==
    /\ Responded /\ last.resp = NotOk /\ last.outcome = "catch"
    /\ last.gets = maxRetries /\ Len(last.delays) = 2

\* C3: an ok response ends the fetch (its frame is gone: no further GET); it
\* was the answer to GET number k+1 after k backoffs, k < maxRetries; and when
\* its body is well formed the fetch returns the snapshot built from that body.
C3_StopsAtFirstOk ==
    (Responded /\ last.resp.kind = "ok") =>
        /\ frame[last.proc] = Returned
        /\ last.gets \in 1..maxRetries
        /\ last.gets = Len(last.delays) + 1
        /\ WellFormed(last.resp) =>
              /\ last.outcome = "return"
              /\ last.value = Entry(Undefined, last.city, last.resp.current)

\* fail, fail, succeed: the third GET is answered ok and the fetch returns a snapshot
C3_Witness ==
    /\ Responded /\ WellFormed(last.resp) /\ last.gets = 3
    /\ last.delays = <<1000, 2000>>
    /\ last.outcome = "return" /\ last.value # Null

\* C4 as stated: a rejected GET that is not the maxRetries-th makes the fetch
\* back off and try again.
C4_RejectionRetried ==
    (Responded /\ last.resp = Reject /\ last.gets < maxRetries) =>
        last.outcome = "sleep" /\ frame[last.proc].pc = "sleep"

\* C5: an ok response whose body carries a reason, or has neither the current
\* nor the daily section, ends the fetch with null and with the notification
\* shown; the handler that awaited the fetch goes on with that null.
C5_DomainFailureHandled ==
    (/\ Responded /\ last.resp.kind = "ok" /\ last.resp.json
     /\ last.resp.reason \/ (last.resp.current = Undefined /\ ~last.resp.daily)) =>
        /\ last.outcome = "catch"
        /\ last.value = Null
        /\ dom.messageBox = "block" /\ dom.dismissTimers > 0
        /\ frame[last.proc] = Returned

\* a body with a reason and otherwise complete was answered with null and a notification
C5_Witness ==
    /\ Responded /\ last.resp.kind = "ok" /\ last.resp.json
    /\ last.resp.reason /\ last.resp.current # Undefined /\ last.resp.daily
    /\ last.value = Null /\ dom.messageBox = "block"

\* C6: after an ok response the fetch issues no further GET, whatever the body
\* and however many attempts remain: the response ends the function, and an
\* invocation that has ended never has a GET out or a backoff pending again.
C6_DomainFailureNotRetried ==
    /\ [](Responded /\ last.resp.kind = "ok" =>
            /\ last.outcome \in {"return", "catch"}
            /\ frame[last.proc].pc = "done")
    /\ [][\A p \in Procs : frame[p].pc = "done" => frame'[p] = frame[p]]_vars

\* the first GET was answered ok with an incomplete body: two attempts remained, none was made
C6_Witness ==
    /\ Responded /\ last.resp.kind = "ok" /\ last.gets = 1
    /\ ~WellFormed(last.resp)
    /\ frame[last.proc].pc = "done"

-----------------------------------------------------------------------------
(* Navigation and the user's lookups: claims C7 to C9 *)

\* the event is a failed turn of a lookup: the geocoder found nothing or its
\* request failed, or the weather fetch ended on a rejected GET, on the
\* maxRetries-th non-ok response or on an ok response with an unusable body
LookupFailed(e) ==
    \/ e.op = "geo" /\ e.outcome \in {"reject", "badjson", "miss"}
    \/ /\ e.op = "response"
       /\ \/ e.resp = Reject
          \/ e.resp = NotOk /\ e.gets = maxRetries
          \/ e.resp.kind = "ok" /\ ~WellFormed(e.resp)

\* the table holds a snapshot for city c: its entry is no longer the static one
HoldsSnapshot(c) == FAMOUS_CITIES[c] # StaticEntry(c)

\* C7: the landing page is active at the start; the active page becomes the
\* details page only in the turn of a click on a city whose snapshot the table
\* holds, or in the turn in which the fetch of a click or of a search returns
\* a snapshot, and it then shows that snapshot; it becomes the landing page
\* only by the back button, and the back button always makes it the landing page.
C7_PageTransitions ==
    /\ ActivePage(dom) = "landing"
    /\ [][/\ (ActivePage(dom) = "landing" /\ ActivePage(dom') = "details") =>
                \/ /\ last'.op = "click"
                   /\ HoldsSnapshot(last'.city)
                   /\ dom'.detailsCityName = FAMOUS_CITIES[last'.city].city
                \/ /\ last'.op = "response"
                   /\ WellFormed(last'.resp)
                   /\ last'.value # Null
                   /\ dom'.detailsCityName = last'.value.city
          /\ (ActivePage(dom) = "details" /\ ActivePage(dom') = "landing") => last'.op = "back"
          /\ last'.op = "back" => ActivePage(dom') = "landing"
         ]_vars

\* the user went to the details of some city and came back by the back button
C7_Witness ==
    /\ last.op = "back"
    /\ ActivePage(dom) = "landing"
    /\ dom.detailsCityName # Undefined

\* C8: the turn in which a lookup fails leaves the active page and the
\* content of the details page as they were and shows the notification (with
\* a new dismiss timer).
C8_FailureKeepsPage ==
    [][LookupFailed(last') =>
          /\ ActivePage(dom') = ActivePage(dom)
          /\ dom'.detailsCityName = dom.detailsCityName
          /\ dom'.messageBox = "block"
          /\ dom'.dismissTimers = dom.dismissTimers + 1
      ]_vars

\* a lookup failed while the details page of an earlier lookup was active
C8_Witness ==
    /\ LookupFailed(last)
    /\ ActivePage(dom) = "details"
    /\ dom.messageBox = "block"

\* C9: a click on a featured city whose snapshot the table holds starts no
\* request and shows the details page with the held snapshot; a click on a
\* city without snapshot starts one fetchWeatherData call (its first GET is
\* out) and leaves the page; either way no other invocation is touched.
C9_ClickFetchesOnlyWhenNotHeld ==
    [][last'.op = "click" =>
          /\ \A p \in Procs \ {last'.proc} : frame'[p] = frame[p]
          /\ IF HoldsSnapshot(last'.city)
             THEN /\ frame'[last'.proc] = Returned
                  /\ dom'.loadingIndicator = dom.loadingIndicator
                  /\ ActivePage(dom') = "details"
                  /\ dom'.detailsCityName = FAMOUS_CITIES[last'.city].city
                  /\ dom'.currentTemp = FAMOUS_CITIES[last'.city].temp
             ELSE /\ frame'[last'.proc] =
                        FetchStart("click", Undefined, last'.city, StaticEntry(last'.city).coord)
                  /\ frame'[last'.proc].gets = 1
                  /\ ActivePage(dom') = ActivePage(dom)
      ]_vars

\* a click on a city with a held snapshot: the details page shows it and no request is out
C9_Witness ==
    /\ last.op = "click"
    /\ HoldsSnapshot(last.city)
    /\ ActivePage(dom) = "details"
    /\ dom.currentTemp = Reading(last.city)
    /\ \A p \in Procs : frame[p].pc \notin {"fetch", "geo", "sleep"}

-----------------------------------------------------------------------------
(* The landing page: claim C10 *)

\* the landing fetch of a city fails for good on response r to its GET of index i
FailsForGood(i, r) ==
    \/ r = Reject
    \/ r = NotOk /\ i = maxRetries - 1
    \/ r.kind = "ok" /\ ~WellFormed(r)

\* C10: no card is rendered before every landing fetch has settled; then
\* there are exactly 5 cards, the k-th for the k-th featured city: a
\* placeholder ("--", the static entry) when the city's fetch failed for
\* good, the city's snapshot otherwise.  The turn that ends one city's fetch
\* leaves the fetches, the results and the table entries of the others alone.
C10_FiveCards ==
    /\ [](IF AllSettled(results)
          THEN /\ Len(dom.cards) = 5
               /\ \A k \in 1..5 :
                     /\ dom.cards[k].city = CityOrder[k]
                     /\ dom.cards[k].data = results[CityOrder[k]]
                     /\ IF HoldsSnapshot(CityOrder[k])
                        THEN dom.cards[k].currentTemp = Reading(CityOrder[k])
                        ELSE dom.cards[k].currentTemp = "--"
          ELSE dom.cards = <<>>)
    /\ [][\A p \in Callbacks : (frame[p].pc = "fetch" /\ frame'[p].pc = "done") =>
            \A r \in Responses(frame[p].coord) : FetchResponse(p, r) =>
                /\ IF FailsForGood(frame[p].i, r)
                   THEN /\ results'[CityOrder[p]] = StaticEntry(CityOrder[p])
                        /\ FAMOUS_CITIES'[CityOrder[p]] = StaticEntry(CityOrder[p])
                   ELSE /\ results'[CityOrder[p]] = Entry(Undefined, CityOrder[p], r.current)
                        /\ r.current = Reading(CityOrder[p])
                        /\ FAMOUS_CITIES'[CityOrder[p]] =
                              Entry(CityOrder[p], CityOrder[p], r.current)
                /\ \A q \in Callbacks \ {p} :
                      /\ frame'[q] = frame[q]
                      /\ results'[CityOrder[q]] = results[CityOrder[q]]
                      /\ FAMOUS_CITIES'[CityOrder[q]] = FAMOUS_CITIES[CityOrder[q]]
         ]_vars

\* city #3 failed and the rest succeeded: 5 cards, the third a placeholder
C10_Witness ==
    /\ AllSettled(results)
    /\ Len(dom.cards) = 5
    /\ dom.cards[3].city = "Tokyo" /\ dom.cards[3].currentTemp = "--"
    /\ \A k \in {1, 2, 4, 5} : dom.cards[k].currentTemp = Reading(CityOrder[k])

\* every landing callback has returned: Promise.all(cityPromises) is fulfilled
Joined == \A p \in Callbacks : frame[p].pc = "done"

\* C11: window.onload starts the fetch of every featured city in one turn,
\* before any response is delivered (no callback is idle while another has a
\* GET out, backs off or has returned); no card is rendered while a fetch is
\* unsettled; and the cards appear together, in the one turn that settles the
\* last fetch, and never change afterwards.
C11_FanOutThenJoin ==
    /\ [](/\ \A p \in Callbacks : frame[p].pc = "idle" <=> ~loaded
          /\ ~Joined => dom.cards = <<>>
          /\ Joined <=> \A c \in Cities : results[c] # Pending)
    /\ [][/\ (~loaded /\ loaded') =>
                \A p \in Callbacks : frame'[p].pc = "fetch" /\ frame'[p].gets = 1
          /\ dom'.cards # dom.cards =>
                /\ ~loaded \/ (dom.cards = <<>> /\ ~Joined)
                /\ loaded => (Joined' /\ Len(dom'.cards) = Len(CityOrder))
         ]_vars

\* four fetches have settled, two of them failed for good, the fifth is at its
\* third GET: still no card
C11_Witness ==
    /\ \E p \in Callbacks :
          /\ frame[p].pc = "fetch" /\ frame[p].gets = maxRetries
          /\ \A q \in Callbacks \ {p} : frame[q].pc = "done"
    /\ Cardinality({c \in Cities : results[c] = StaticEntry(c)}) = 2
    /\ dom.cards = <<>>

-----------------------------------------------------------------------------
(* The effects of a fetch: claims C12 and C13 *)

\* C12 as stated: a fetch that returned a snapshot for a featured city has
\* written it into the city's table entry (next to the entry's coordinates),
\* whether the landing page or a click started it; a fetch that returned null
\* has left the entry as it was.
C12_EveryFetchWritesTable ==
    (Responded /\ last.outcome \in {"return", "catch"} /\ last.city \in Cities) =>
        IF last.value # Null
        THEN FAMOUS_CITIES[last.city] = Entry(last.city, last.city, last.value.temp)
        ELSE FAMOUS_CITIES[last.city] = StaticEntry(last.city)

\* the turn from the state to the next is one of a lookup's fetchWeatherData
\* call: its start (to the first GET), a response to a GET, or a backoff elapsing
FetchStarts == \/ last'.op = "click" /\ frame'[last'.proc].pc = "fetch"
               \/ last'.op = "geo" /\ last'.outcome = "hit"
FetchTurn == FetchStarts \/ last'.op \in {"response", "backoff"}

\* C13 as stated: no turn of a fetch changes the loading indicator, the
\* notification box or the city table or writes to the console, and the turn
\* in which a fetch fails leaves the active page as it was.
C13_NoSideEffect ==
    [][FetchTurn =>
          /\ dom'.loadingIndicator = dom.loadingIndicator
          /\ dom'.messageBox = dom.messageBox
          /\ dom'.dismissTimers = dom.dismissTimers
          /\ FAMOUS_CITIES' = FAMOUS_CITIES
          /\ last'.log = <<>>
          /\ last'.outcome = "catch" => ActivePage(dom') = ActivePage(dom)
      ]_vars

\* C13 as amended: the fetch changes neither the city table nor (itself) the
\* pages.  Its start shows the loading indicator and changes nothing else; a
\* non-ok response that is retried and a backoff elapsing change nothing; its
\* failure hides the loading indicator, shows the notification box with a new
\* dismiss timer, writes one line to the console and changes nothing else; its
\* success hides the loading indicator, leaves the notification box alone and
\* writes nothing to the console.
C13_FetchEffects ==
    [][FetchTurn =>
          /\ FAMOUS_CITIES' = FAMOUS_CITIES
          /\ FetchStarts => dom' = [dom EXCEPT !.loadingIndicator = "flex"]
          /\ (last'.op = "backoff" \/ last'.outcome = "sleep") =>
                dom' = dom /\ last'.log = <<>>
          /\ (last'.op = "response" /\ last'.outcome = "catch") =>
                /\ dom' = [dom EXCEPT !.loadingIndicator = "none",
                                      !.messageBox = "block",
                                      !.dismissTimers = @ + 1]
                /\ last'.log = <<"Error fetching weather:">>
          /\ (last'.op = "response" /\ last'.outcome = "return") =>
                /\ dom'.loadingIndicator = "none"
                /\ dom'.messageBox = dom.messageBox
                /\ dom'.dismissTimers = dom.dismissTimers
                /\ last'.log = <<>>
      ]_vars

\* a lookup's fetch failed on its third GET while the box was not shown: the
\* indicator is hidden, the box is shown and the error is on the console
C13_Witness ==
    /\ Responded /\ last.outcome = "catch" /\ last.gets = maxRetries
    /\ last.log = <<"Error fetching weather:">>
    /\ dom.loadingIndicator = "none"
    /\ dom.messageBox = "block" /\ dom.dismissTimers = 1

-----------------------------------------------------------------------------
(* The backend: claim C14 *)

\* C14: a request without location (absent or empty) is answered 400 under
\* either credential; a request with a location is answered 503 while the
\* credential is the placeholder, and no call is made to the provider for it;
\* with a credential configured one call is made and the answer is 200 with
\* the provider's body when the call succeeds, the provider's status when it
\* fails with one, and 500 when the provider gave no response.  A request is
\* answered once: no reply before its handler ends, one after, and none later.
C14_BackendAnswers ==
    /\ [](\A r \in Requests :
            LET q == server[r]
                reply == q.replies[1]
            IN  /\ q.pc \in {"idle", "upstream"} => q.replies = <<>>
                /\ q.pc = "upstream" => q.upstream = 1
                /\ q.pc = "done" =>
                      /\ Len(q.replies) = 1
                      /\ IF q.location \in {Undefined, ""}
                         THEN reply.status = 400 /\ q.upstream = 0
                         ELSE IF WEATHER_API_KEY = "YOUR_API_KEY_HERE"
                              THEN reply.status = 503 /\ q.upstream = 0
                              ELSE /\ q.upstream = 1
                                   /\ q.answer.kind = "ok" =>
                                         reply.status = 200 /\ reply.data = q.answer.data
                                   /\ q.answer.kind = "error" => reply.status = q.answer.status
                                   /\ q.answer.kind = "none" => reply.status = 500)
    /\ [][\A r \in Requests : server[r].pc = "done" => server'[r] = server[r]]_vars

\* with a key configured, one request without location got 400 and one for
\* Paris got the provider's 404
C14_Witness ==
    /\ WEATHER_API_KEY # Unconfigured
    /\ server[1].pc = "done" /\ server[1].location = Undefined
    /\ server[1].replies[1].status = 400
    /\ server[2].pc = "done" /\ server[2].location = "Paris"
    /\ server[2].answer.kind = "error"
    /\ server[2].replies = <<Reply(404, "city not found", Undefined)>>

-----------------------------------------------------------------------------
(* The condition lookup: claim C15 *)

\* C15: the lookup yields a description and an icon for every code: for a
\* code of the catalog a description that is neither empty nor "Unknown", for
\* every other code and for an absent code the description "Unknown" with the
\* empty icon; it never yields an undefined description or icon.
C15_LookupTotal ==
    weatherInfo # NotLookedUp =>
        /\ weatherInfo.desc # Undefined /\ weatherInfo.icon # Undefined
        /\ IF weatherCode.present
              /\ weatherCode.value \in {0, 1, 2, 3, 45, 51, 61, 65, 71, 80, 95, 99}
           THEN weatherInfo.desc \notin {"", "Unknown"}
           ELSE weatherInfo = [desc |-> "Unknown", icon |-> ""]

\* code 0, a falsy key, resolved to its own entry
C15_Witness ==
    /\ weatherCode = Code(0)
    /\ weatherInfo.desc = "Clear sky"

-----------------------------------------------------------------------------
(* The notification box, the loading indicator and overlapping lookups:
   claims C16 to C20 *)

\* a request of invocation p is in flight (weather or geocoding) or p backs off
InFlight(p) == frame[p].pc \in {"fetch", "geo", "sleep"}

\* C16: when no dismiss timer is pending the notification box is hidden,
\* however many failures showed it before; the box is shown only together
\* with a new dismiss timer, and a timer that fires hides it.
C16_NotificationTransient ==
    /\ [](dom.dismissTimers = 0 => dom.messageBox = "none")
    /\ [][/\ (dom.messageBox = "none" /\ dom'.messageBox = "block") =>
                dom'.dismissTimers = dom.dismissTimers + 1
          /\ dom'.dismissTimers < dom.dismissTimers =>
                dom'.dismissTimers = dom.dismissTimers - 1 /\ dom'.messageBox = "none"
         ]_vars

\* both lookups failed (the details page was never filled), their two
\* notifications were shown and both timers have fired: the box is hidden
C16_Witness ==
    /\ started = 2
    /\ frame[Lookup(1)].pc = "done" /\ frame[Lookup(2)].pc = "done"
    /\ dom.detailsCityName = Undefined
    /\ dom.dismissTimers = 0
    /\ dom.messageBox = "none"

\* C17 as stated: the loading indicator is shown whenever a request of some
\* invocation is in flight or backing off, and hidden whenever none is.
C17_LoadingWhileInFlight ==
    IF \E p \in Procs : InFlight(p)
    THEN dom.loadingIndicator = "flex"
    ELSE dom.loadingIndicator = "none"

\* C18 as stated, for the earliest lookup (every other lookup was initiated
\* later): when its response arrives after a later lookup has filled the
\* details page, the details page keeps the later lookup's content and the
\* active page stays the one the user is on.
C18_LateResponseDropped ==
    [][(last'.op = "response" /\ last'.proc = Lookup(1) /\ dom.detailsCityName # Undefined) =>
          /\ dom'.detailsCityName = dom.detailsCityName
          /\ dom'.currentTemp = dom.currentTemp
          /\ ActivePage(dom') = ActivePage(dom)
      ]_vars

\* C19: exactly one of the two pages is hidden; and when no fade-in callback
\* is pending, the page that is not hidden is not transparent.
C19_OnePageShown ==
    /\ dom.landingHidden # dom.detailsHidden
    /\ dom.fadeTimers = <<>> =>
          IF dom.landingHidden THEN ~dom.detailsOpacity0 ELSE ~dom.landingOpacity0

\* the user went to the details page and back, and every fade-in callback
\* has run: the landing page is shown and opaque, the details page hidden
C19_Witness ==
    /\ dom.detailsCityName # Undefined
    /\ dom.fadeTimers = <<>>
    /\ dom.detailsHidden /\ ~dom.landingHidden /\ ~dom.landingOpacity0

\* C20 as stated: a notification stays visible until its own timer fires.
\* Timers fire in the order they were set, so while any dismiss timer is
\* pending the timer of the latest notification is: the box is shown.
C20_HiddenByOwnTimer ==
    dom.dismissTimers > 0 => dom.messageBox = "block"

====
